---- MODULE Spec2Model ----
(***************************************************************************)
(* Model of release_new_version.py: the changelog builder                  *)
(* (build_changelog and the git helpers it calls) and the interactive      *)
(* release flow of main().                                                 *)
(*                                                                         *)
(* Text is modelled as a sequence of one-character strings, so that the    *)
(* string operations of the script (strip, splitlines, join, the f-string  *)
(* formatting and the SEMVER_TAG_RE match) are computed, not assumed.      *)
(* The git repository is modelled as a commit graph with tags; git's       *)
(* answers to the three commands of the changelog builder are computed     *)
(* from it.                                                                *)
(***************************************************************************)
EXTENDS Integers, Sequences, FiniteSets, TLC

VARIABLES
    parents,        \* commit graph: commit -> set of parent commits
    subjects,       \* commit -> subject line (text)
    tags,           \* local tags: set of [name, target, created]
    head,           \* the commit checked out (HEAD, tip of the branch)
    dirty,          \* the working tree has changes (git status --porcelain)
    origin_tags,    \* the tags of origin
    origin_head,    \* the branch tip of origin
    changelog_file, \* content of <repo>/CHANGELOG.txt, None when absent
    staging,        \* the staging directory: a set of items, None when absent
    public,         \* <public_root>/<machine>/<version>/, the same way
    public_pushed,  \* the public releases repository was pushed
    today,          \* the UTC day of the system clock (day index)
    version,        \* main: the version entered
    release_msg,    \* main: the message read back from the editor
    last_answer,    \* the operator's last line of input at one of the
                    \* questions asked before anything is done
    last_input,     \* the operator's last line of input at the overwrite
                    \* prompt
    git_fault,      \* number of the git call of the changelog step that
                    \* the environment made fail (0: none)
    push_error,     \* how the push step of main ended
    initial,        \* the repositories and files as they were at the start
    out,            \* what the last build_changelog() invocation produced
    prev_out,       \* what the invocation before it produced
    pc              \* position of the running script

repo_vars == <<parents, subjects, tags, head, dirty>>
origin_vars == <<origin_tags, origin_head>>
file_vars == <<changelog_file, staging, public, public_pushed>>
main_vars ==
    <<version, release_msg, last_answer, last_input, git_fault, push_error,
      initial>>

vars == <<repo_vars, origin_vars, file_vars, main_vars, today, out, prev_out, pc>>

----------------------------------------------------------------------------
(* Bounds of the model *)

\* commits of a repository
MaxCommits == 3
\* tags of a repository the changelog builder is run on
MaxTags == 2
\* tags of a repository whose tags were not created in the order of history
MaxHistoryTags == 3
\* last day of the clock
MaxDay == 1
\* tags of the repository a release is made from
MaxReleaseTags == 1
\* names a staging directory and a destination draw their items from
MaxItems == 3

----------------------------------------------------------------------------
(* Characters and text *)

NL == "\n"
\* the character U+2014 (em dash) of the section header
EmDash == "u2014"
Digits == {"0", "1", "2", "3", "4", "5", "6", "7", "8", "9"}
\* the characters str.strip() removes
Whitespace == {" ", "\t", "\n", "\r", "\f"}

DigitChar(n) ==
    CASE n = 0 -> "0" [] n = 1 -> "1" [] n = 2 -> "2" [] n = 3 -> "3"
      [] n = 4 -> "4" [] n = 5 -> "5" [] n = 6 -> "6" [] n = 7 -> "7"
      [] n = 8 -> "8" [] n = 9 -> "9"

\* Optional[str]: None is the empty tuple, a value x is <<x>>
None == <<>>
Some(x) == <<x>>

RECURSIVE lstrip(_)
lstrip(s) ==
    IF s # <<>> /\ Head(s) \in Whitespace THEN lstrip(Tail(s)) ELSE s

RECURSIVE rstrip(_)
rstrip(s) ==
    IF s # <<>> /\ s[Len(s)] \in Whitespace
    THEN rstrip(SubSeq(s, 1, Len(s) - 1))
    ELSE s

\* str.strip()
strip(s) == rstrip(lstrip(s))

\* a set of numbers as a sequence, smallest first
RECURSIVE AscSeq(_)
AscSeq(S) ==
    IF S = {} THEN <<>>
    ELSE LET m == CHOOSE x \in S : \A y \in S : x <= y
         IN <<m>> \o AscSeq(S \ {m})

\* str.splitlines() of a text whose line ends are "\n" (run() reads the
\* output in text mode): every "\n" ends a line, and what follows the last
\* "\n" is a line when it is not empty.
splitlines(s) ==
    LET ends == {i \in 1..Len(s) : s[i] = NL}
        starts == AscSeq({i \in {1} \cup {e + 1 : e \in ends} : i <= Len(s)})
        EndOf(b) == IF \E e \in ends : e >= b
                    THEN (CHOOSE e \in ends :
                            e >= b /\ \A f \in ends : f >= b => e <= f) - 1
                    ELSE Len(s)
    IN [k \in 1..Len(starts) |-> SubSeq(s, starts[k], EndOf(starts[k]))]

\* sep.join(parts)
RECURSIVE join(_, _)
join(sep, parts) ==
    IF parts = <<>> THEN <<>>
    ELSE IF Len(parts) = 1 THEN parts[1]
    ELSE parts[1] \o sep \o join(sep, Tail(parts))

----------------------------------------------------------------------------
(* SEMVER_TAG_RE = ^v\d+\.\d+\.\d+$ used with re.match *)

\* The automaton of the pattern: state 0 start, 2/4/6 inside the three
\* numbers, 7 after a final "\n" ($ also matches before a trailing newline),
\* -1 dead.
SemverStep(q, c) ==
    CASE q = 0 -> IF c = "v" THEN 1 ELSE -1
      [] q = 1 -> IF c \in Digits THEN 2 ELSE -1
      [] q = 2 -> IF c \in Digits THEN 2 ELSE IF c = "." THEN 3 ELSE -1
      [] q = 3 -> IF c \in Digits THEN 4 ELSE -1
      [] q = 4 -> IF c \in Digits THEN 4 ELSE IF c = "." THEN 5 ELSE -1
      [] q = 5 -> IF c \in Digits THEN 6 ELSE -1
      [] q = 6 -> IF c \in Digits THEN 6 ELSE IF c = NL THEN 7 ELSE -1
      [] OTHER -> -1

RECURSIVE SemverRun(_, _)
SemverRun(q, s) ==
    IF s = <<>> THEN q ELSE SemverRun(SemverStep(q, Head(s)), Tail(s))

\* the pattern without its final $: a release tag followed by anything
SEMVER_TAG_RE_match_unanchored(s) ==
    \E k \in 1..Len(s) : SemverRun(0, SubSeq(s, 1, k)) = 6

SEMVER_TAG_RE_match(s) == SemverRun(0, s) \in {6, 7}

----------------------------------------------------------------------------
(* Dates *)

\* an integer as decimal digits, zero-padded to the given width (%Y, %m, %d)
RECURSIVE ZeroPad(_, _)
ZeroPad(n, width) ==
    IF width = 0 THEN <<>>
    ELSE ZeroPad(n \div 10, width - 1) \o <<DigitChar(n % 10)>>

\* date.strftime("%Y-%m-%d"), which is also git's --date=short
strftime_Ymd(date) ==
    ZeroPad(date.y, 4) \o <<"-">> \o ZeroPad(date.m, 2) \o <<"-">>
        \o ZeroPad(date.d, 2)

\* datetime.utcnow() on day `day` of the clock: day 0 is 2024-12-31, the
\* days after it are those of January 2025
utcnow(day) ==
    IF day = 0 THEN [y |-> 2024, m |-> 12, d |-> 31]
    ELSE [y |-> 2025, m |-> 1, d |-> day]

\* the author date of commit c: the commits were made on successive days of
\* December 2024, before the clock's first day
AuthorDate(c) == [y |-> 2024, m |-> 12, d |-> c]

----------------------------------------------------------------------------
(* The git repository and the three git commands of the changelog builder *)

\* the target of a tag that names a tree or a blob instead of a commit
NoCommit == 0

Repo == [parents |-> parents, subjects |-> subjects, tags |-> tags]

\* the commits reachable from c
RECURSIVE Reach(_, _)
Reach(par, c) ==
    IF c = NoCommit THEN {}
    ELSE {c} \cup UNION {Reach(par, p) : p \in par[c]}

\* a set of numbers as a sequence, largest first
RECURSIVE DescSeq(_)
DescSeq(S) ==
    IF S = {} THEN <<>>
    ELSE LET m == CHOOSE x \in S : \A y \in S : y <= x
         IN <<m>> \o DescSeq(S \ {m})

\* tags newest first (git tag --sort=-creatordate)
RECURSIVE TagsByCreatorDateDesc(_)
TagsByCreatorDateDesc(T) ==
    IF T = {} THEN <<>>
    ELSE LET t == CHOOSE x \in T : \A y \in T : y.created <= x.created
         IN <<t>> \o TagsByCreatorDateDesc(T \ {t})

\* git's reading of a revision argument: "a..b" or a single name
GitRevRange(rev) ==
    LET dd == {i \in 1..(Len(rev) - 1) : rev[i] = "." /\ rev[i + 1] = "."}
    IN IF dd = {} THEN [excl |-> None, incl |-> rev]
       ELSE LET i == CHOOSE x \in dd : \A y \in dd : x <= y
            IN [excl |-> Some(SubSeq(rev, 1, i - 1)),
                incl |-> SubSeq(rev, i + 2, Len(rev))]

\* the tags a name resolves to (none: git fails with "unknown revision")
GitResolve(repo, name) == {t \in repo.tags : t.name = name}

GitTarget(repo, name) == (CHOOSE t \in GitResolve(repo, name) : TRUE).target

RECURSIVE ConcatLines(_)
ConcatLines(lines) ==
    IF lines = <<>> THEN <<>>
    ELSE Head(lines) \o <<NL>> \o ConcatLines(Tail(lines))

\* git tag --sort=-creatordate
GitTagList(repo) ==
    LET sorted == TagsByCreatorDateDesc(repo.tags)
    IN [returncode |-> 0,
        stdout |-> ConcatLines([i \in 1..Len(sorted) |-> sorted[i].name])]

\* git log --no-merges --pretty=format:%s <rev>
GitLogSubjects(repo, rev) ==
    LET r == GitRevRange(rev)
        names == IF r.excl = None THEN {r.incl} ELSE {r.incl, r.excl[1]}
    IN IF \E n \in names : GitResolve(repo, n) = {}
       THEN [returncode |-> 128, stdout |-> <<>>]
       ELSE LET upto == Reach(repo.parents, GitTarget(repo, r.incl))
                hidden == IF r.excl = None THEN {}
                          ELSE Reach(repo.parents, GitTarget(repo, r.excl[1]))
                shown == {c \in upto \ hidden :
                              Cardinality(repo.parents[c]) <= 1}
                order == DescSeq(shown)
            IN [returncode |-> 0,
                stdout |-> join(<<NL>>,
                    [i \in 1..Len(order) |-> repo.subjects[order[i]]])]

\* git log -1 --format=%ad --date=short <tag>
GitLogDate(repo, rev) ==
    IF GitResolve(repo, rev) = {} THEN [returncode |-> 128, stdout |-> <<>>]
    ELSE LET c == GitTarget(repo, rev)
         IN [returncode |-> 0,
             stdout |-> IF c = NoCommit THEN <<>>
                        ELSE strftime_Ymd(AuthorDate(c)) \o <<NL>>]

\* the command lines (the revision argument is text)
TagListCmd == <<"git", "tag", "--sort=-creatordate">>
LogSubjectsCmd(rev) == <<"git", "log", "--no-merges", "--pretty=format:%s", rev>>
LogDateCmd(tag) == <<"git", "log", "-1", "--format=%ad", "--date=short", tag>>

Git(repo, cmd) ==
    CASE cmd[2] = "tag" -> GitTagList(repo)
      [] cmd[2] = "log" /\ cmd[3] = "--no-merges" -> GitLogSubjects(repo, cmd[5])
      [] cmd[2] = "log" /\ cmd[3] = "-1" -> GitLogDate(repo, cmd[6])

----------------------------------------------------------------------------
(* The git helpers of the script.  A Python call is modelled by the record *)
(* of what it returns, with raised = TRUE when it raises.                  *)

\* what run() gives back for a finished process: with check=True a non-zero
\* exit raises CalledProcessError
Checked(cp, cmd) ==
    [raised |-> cp.returncode # 0, stdout |-> cp.stdout, cmd |-> cmd]

\* run with check=False: a failing command is not noticed
run_unchecked(repo, cmd, broken) ==
    [raised |-> FALSE,
     stdout |-> IF broken THEN <<>> ELSE Git(repo, cmd).stdout,
     cmd |-> cmd]

\* run(cmd) with check=True; `broken` is the environment making this call
\* exit non-zero (no repository, damaged object store, git missing)
run(repo, cmd, broken) ==
    Checked(IF broken THEN [returncode |-> 1, stdout |-> <<>>]
            ELSE Git(repo, cmd), cmd)

\* [ln.strip() for ln in lines if ln.strip()]
RECURSIVE StripNonEmpty(_)
StripNonEmpty(lines) ==
    IF lines = <<>> THEN <<>>
    ELSE (IF strip(Head(lines)) # <<>> THEN <<strip(Head(lines))>> ELSE <<>>)
            \o StripNonEmpty(Tail(lines))

\* [t for t in tags if SEMVER_TAG_RE.match(t)]
RECURSIVE SemverOnly(_)
SemverOnly(names) ==
    IF names = <<>> THEN <<>>
    ELSE (IF SEMVER_TAG_RE_match(Head(names)) THEN <<Head(names)>> ELSE <<>>)
            \o SemverOnly(Tail(names))

\* the value a helper returns from the output of its git command
Returning(cp, value) ==
    [raised |-> cp.raised, cmd |-> cp.cmd,
     value |-> IF cp.raised THEN <<>> ELSE value]

TagListParsed(cp) ==
    Returning(cp, SemverOnly(StripNonEmpty(splitlines(cp.stdout))))

git_tag_list_sorted_desc(repo, broken) ==
    TagListParsed(run(repo, TagListCmd, broken))

TagDateParsed(cp) == Returning(cp, strip(cp.stdout))

tag_date(repo, tag, broken) ==
    TagDateParsed(run(repo, LogDateCmd(tag), broken))

CommitLinesParsed(cp) == Returning(cp, StripNonEmpty(splitlines(cp.stdout)))

commits_between(repo, a_excl, b_incl, broken) ==
    CommitLinesParsed(
        run(repo,
            LogSubjectsCmd(IF a_excl = None THEN b_incl
                           ELSE a_excl[1] \o <<".", ".">> \o b_incl),
            broken))

----------------------------------------------------------------------------
(* build_changelog *)

\* the placeholder without its newline
NoTagsFound_no_newline ==
    <<"N", "o", " ", "t", "a", "g", "s", " ", "f", "o", "u", "n", "d", ".">>

NoTagsFound ==
    <<"N", "o", " ", "t", "a", "g", "s", " ", "f", "o", "u", "n", "d", ".", NL>>

\* the range starts two tags back instead of one
prev_tag_skips_one(tgs, idx) ==
    IF idx + 2 <= Len(tgs) THEN Some(tgs[idx + 2]) ELSE None

\* tags[idx + 1] if (idx + 1) < len(tags) else None   (idx counts from 1 here)
prev_tag_of(tgs, idx) ==
    IF idx + 1 <= Len(tgs) THEN Some(tgs[idx + 1]) ELSE None

\* the date of the tag without the fallback
date_no_fallback(d, day) == d

\* the date of the run instead of the date of the tag
date_always_today(d, day) == strftime_Ymd(utcnow(day))

\* tag_date(tag) or datetime.utcnow().strftime("%Y-%m-%d")
date_or_today(d, day) ==
    IF d # <<>> THEN d ELSE strftime_Ymd(utcnow(day))

\* f"## {tag} -- {date}"
header_line(tag, date) ==
    <<"#", "#", " ">> \o tag \o <<" ", EmDash, " ">> \o date

\* f"- {m}"
bullet_line(m) == <<"-", " ">> \o m

\* "\n".join(sec) for sec = [header] + bullets
section_text(tag, date, messages) ==
    join(<<NL>>, <<header_line(tag, date)>>
                    \o [i \in 1..Len(messages) |-> bullet_line(messages[i])])

\* sections joined without the blank line
document_text_no_blank_line(sections) == join(<<NL>>, sections) \o <<NL>>

\* "\n\n".join(sections) + "\n"
document_text(sections) == join(<<NL, NL>>, sections) \o <<NL>>

\* the for loop of build_changelog from index idx on; failAt is the number of
\* the git call of this invocation that fails (0: none does)
RECURSIVE changelog_loop(_, _, _, _, _, _, _)

\* one turn of the loop, once git has answered: messages and date are what
\* commits_between and tag_date gave for tgs[idx]
loop_turn(repo, day, failAt, tgs, idx, sections, calls, messages, date) ==
    IF messages.raised
    THEN [raised |-> TRUE, sections |-> sections,
          calls |-> Append(calls, messages.cmd)]
    ELSE IF date.raised
    THEN [raised |-> TRUE, sections |-> sections,
          calls |-> Append(Append(calls, messages.cmd), date.cmd)]
    ELSE changelog_loop(repo, day, failAt, tgs, idx + 1,
            Append(sections,
                   section_text(tgs[idx], date_or_today(date.value, day),
                                messages.value)),
            Append(Append(calls, messages.cmd), date.cmd))

changelog_loop(repo, day, failAt, tgs, idx, sections, calls) ==
    IF idx > Len(tgs)
    THEN [raised |-> FALSE, sections |-> sections, calls |-> calls]
    ELSE loop_turn(repo, day, failAt, tgs, idx, sections, calls,
            commits_between(repo, prev_tag_of(tgs, idx), tgs[idx],
                            failAt = Len(calls) + 1),
            tag_date(repo, tgs[idx], failAt = Len(calls) + 2))

\* return "\n\n".join(sections) + "\n", unless the loop raised
changelog_result(loop, day) ==
    IF loop.raised
    THEN [raised |-> TRUE, text |-> <<>>, calls |-> loop.calls, day |-> day]
    ELSE [raised |-> FALSE, text |-> document_text(loop.sections),
          calls |-> loop.calls, day |-> day]

\* build_changelog once the tag list is there
changelog_of_tags(repo, day, failAt, tgs) ==
    IF tgs.raised
    THEN [raised |-> TRUE, text |-> <<>>, calls |-> <<tgs.cmd>>, day |-> day]
    ELSE IF tgs.value = <<>>
    THEN [raised |-> FALSE, text |-> NoTagsFound, calls |-> <<tgs.cmd>>,
          day |-> day]
    ELSE changelog_result(
            changelog_loop(repo, day, failAt, tgs.value, 1, <<>>, <<tgs.cmd>>),
            day)

build_changelog(repo, day, failAt) ==
    changelog_of_tags(repo, day, failAt,
                      git_tag_list_sorted_desc(repo, failAt = 1))

----------------------------------------------------------------------------
(* Repositories the changelog builder is run on *)

Commits == 1..MaxCommits

\* commit graphs: commit 1 is the root, every later commit has one or two
\* parents among the two commits made before it
CommitGraphs ==
    {p \in [Commits -> SUBSET Commits] :
        \A c \in Commits :
            /\ p[c] \subseteq {d \in Commits : c - 2 <= d /\ d < c}
            /\ c > 1 => p[c] # {}}

SubjectPool(c) ==
    CASE c = 1 -> <<"i", "n", "i", "t">>
      [] c = 2 -> <<"f", "i", "x", " ", "B">>
      [] c = 3 -> <<"f", "e", "a", "t", "u", "r", "e", " ", "A">>
      [] OTHER -> <<"c", DigitChar(c)>>

\* the i-th tag created: v<i>.0.0, or a label that is no release tag
SemverName(i) == <<"v", DigitChar(i), ".", "0", ".", "0">>
OtherName(i) ==
    CASE i % 3 = 1 -> <<"v", DigitChar(i), ".", "0">>
      [] i % 3 = 2 -> <<"v", DigitChar(i), ".", "0", ".", "0", "-", "r", "c">>
      [] OTHER -> <<DigitChar(i), ".", "0", ".", "0">>

\* tag sets: up to n tags created one after the other, at most one of them
\* no release tag, each on any commit or on an object that is no commit
TagSets(n) ==
    UNION {
        { {[name |-> IF i = other THEN OtherName(i) ELSE SemverName(i),
            target |-> tg[i], created |-> i] : i \in 1..k} :
            tg \in [1..k -> {NoCommit} \cup Commits], other \in 0..k } :
        k \in 0..n }

NoOutput == [raised |-> FALSE, text |-> <<>>, calls |-> <<>>, day |-> -1]

\* what main() has not reached: nothing entered, nothing pushed
MainNotRun ==
    /\ version = None
    /\ release_msg = None
    /\ last_answer = None
    /\ last_input = None
    /\ git_fault = 0
    /\ push_error = "unset"

\* the snapshot kept in `initial`
Snapshot ==
    [tags |-> tags, origin_tags |-> origin_tags, origin_head |-> origin_head,
     changelog_file |-> changelog_file, staging |-> staging,
     public |-> public, public_pushed |-> public_pushed]

\* build_changelog() called on its own on a repository that has no remote
LibraryOnly ==
    /\ head = MaxCommits
    /\ dirty = FALSE
    /\ origin_tags = {}
    /\ origin_head = NoCommit
    /\ changelog_file = None
    /\ staging = None
    /\ public = None
    /\ public_pushed = FALSE
    /\ MainNotRun
    /\ initial = Snapshot
    /\ today = 0
    /\ out = NoOutput
    /\ prev_out = NoOutput
    /\ pc = "library"

InitChangelog ==
    /\ parents \in CommitGraphs
    /\ subjects = [c \in Commits |-> SubjectPool(c)]
    /\ tags \in TagSets(MaxTags)
    /\ LibraryOnly

\* the clock passes midnight UTC
Tick ==
    /\ today < MaxDay
    /\ today' = today + 1
    /\ UNCHANGED <<repo_vars, origin_vars, file_vars, main_vars, out, prev_out, pc>>

\* build_changelog() is called on the repository as it is
CallBuildChangelog ==
    /\ pc = "library"
    /\ out' = build_changelog(Repo, today, 0)
    /\ prev_out' = out
    /\ UNCHANGED <<repo_vars, origin_vars, file_vars, main_vars, today, pc>>

NextChangelog == Tick \/ CallBuildChangelog

SpecChangelog == InitChangelog /\ [][NextChangelog]_vars

\* the same, on repositories with one more tag
InitHistory ==
    /\ parents \in CommitGraphs
    /\ subjects = [c \in Commits |-> SubjectPool(c)]
    /\ tags \in TagSets(MaxHistoryTags)
    /\ LibraryOnly

SpecHistory == InitHistory /\ [][NextChangelog]_vars

----------------------------------------------------------------------------
(* Reading a repository and a result, for the properties below *)

\* the last invocation returned a document
Returned(o) == o # NoOutput /\ ~o.raised

IsPrefix(p, s) == Len(p) <= Len(s) /\ SubSeq(s, 1, Len(p)) = p

\* the labels of the repository that are no release tags, by construction
NonReleaseLabels == {OtherName(i) : i \in 1..(MaxTags + MaxHistoryTags)}

\* the names of the repository's tags, newest first
AllTagNames ==
    LET sorted == TagsByCreatorDateDesc(tags)
    IN [i \in 1..Len(sorted) |-> sorted[i].name]

\* the release tags of the repository, newest first
ReleaseTagNames == SelectSeq(AllTagNames, LAMBDA n : n \notin NonReleaseLabels)

TargetOf(name) == (CHOOSE t \in tags : t.name = name).target

DocLines(o) == splitlines(o.text)

HeaderPrefix(tag) == <<"#", "#", " ">> \o tag \o <<" ", EmDash, " ">>

\* the header lines of a document, in order
HeaderLines(o) ==
    SelectSeq(DocLines(o), LAMBDA l : IsPrefix(<<"#", "#", " ">>, l))

\* how many lines of the document are the bullet of this message
BulletCount(o, m) ==
    Cardinality({i \in 1..Len(DocLines(o)) : DocLines(o)[i] = <<"-", " ">> \o m})

\* the commits that are no merges and reachable from a release tag
ReleasedCommits ==
    {c \in Commits :
        /\ Cardinality(parents[c]) <= 1
        /\ \E t \in tags : t.name \notin NonReleaseLabels
                            /\ c \in Reach(parents, t.target)}

AllTagsOnCommits == \A t \in tags : t.target # NoCommit

DistinctSubjects ==
    /\ \A c \in Commits : strip(subjects[c]) # <<>>
    /\ \A c, d \in Commits : c # d => subjects[c] # subjects[d]

----------------------------------------------------------------------------
(* Properties of build_changelog *)

\* C1: the sections of the changelog partition the non-merge commits
\* reachable from the release tags: with subject lines that are all different
\* and not empty, each such commit's message is the bullet of exactly one
\* line of the document, whatever the order of the tags' creation.
C1_Partition ==
    (Returned(out) /\ DistinctSubjects /\ AllTagsOnCommits) =>
        \A c \in ReleasedCommits : BulletCount(out, subjects[c]) = 1

\* C2: one section per release tag, newest tag first; the messages of the
\* i-th tag are requested for the range <tag i+1>..<tag i>, those of the last
\* tag for the whole history up to it.
C2_SectionPerTag ==
    (Returned(out) /\ ReleaseTagNames # <<>>) =>
        LET T == ReleaseTagNames
            hs == HeaderLines(out)
        IN /\ Len(hs) = Len(T)
           /\ \A i \in 1..Len(T) : IsPrefix(HeaderPrefix(T[i]), hs[i])
           /\ Len(out.calls) = 1 + 2 * Len(T)
           /\ \A i \in 1..Len(T) :
                out.calls[2 * i] =
                    LogSubjectsCmd(IF i < Len(T)
                                   THEN T[i + 1] \o <<".", ".">> \o T[i]
                                   ELSE T[i])

C2_Witness ==
    Returned(out) /\ Len(ReleaseTagNames) >= 2 /\ Len(HeaderLines(out)) >= 2

\* C3: a label that is no release tag is never a section header and never
\* one end of a requested commit range, and the release tags keep the order
\* git listed them in.
C3_OnlyReleaseTags ==
    Returned(out) =>
        LET hs == HeaderLines(out)
            T == ReleaseTagNames
            calls == out.calls
        IN /\ \A l \in NonReleaseLabels :
                /\ \A i \in 1..Len(hs) : ~IsPrefix(HeaderPrefix(l), hs[i])
                /\ \A k \in 1..Len(calls) :
                    /\ calls[k][3] = "--no-merges" =>
                        /\ GitRevRange(calls[k][5]).incl # l
                        /\ GitRevRange(calls[k][5]).excl # Some(l)
                    /\ calls[k][3] = "-1" => calls[k][6] # l
           /\ Len(hs) = Len(T)
           /\ \A i \in 1..Len(T) : IsPrefix(HeaderPrefix(T[i]), hs[i])

\* the tag before the newest release tag is no release tag
C3_Witness ==
    /\ Returned(out)
    /\ Len(AllTagNames) >= 2
    /\ AllTagNames[1] \notin NonReleaseLabels
    /\ AllTagNames[2] \in NonReleaseLabels
    /\ Len(HeaderLines(out)) >= 1

\* C4: with no release tag in the repository the result is the line
\* "No tags found." and a newline, nothing is raised, and git is asked for
\* the tag list only.
C4_NoTags ==
    (out # NoOutput /\ ReleaseTagNames = <<>>) =>
        /\ ~out.raised
        /\ out.text = <<"N", "o", " ", "t", "a", "g", "s", " ",
                        "f", "o", "u", "n", "d", ".", "\n">>
        /\ out.calls = <<TagListCmd>>

\* the only tag of the repository is no release tag
C4_Witness ==
    /\ out # NoOutput
    /\ ReleaseTagNames = <<>>
    /\ tags # {}

\* the current UTC date as YYYY-MM-DD, written out
ExpectedToday(day) ==
    IF day = 0 THEN <<"2", "0", "2", "4", "-", "1", "2", "-", "3", "1">>
    ELSE <<"2", "0", "2", "5", "-", "0", "1", "-", "0", DigitChar(day)>>

\* C5: the header of a tag whose date git does not give carries the UTC date
\* of the call; no header has an empty date, and the missing date does not
\* abort the generation.
C5_MissingDate ==
    out # NoOutput =>
        LET hs == HeaderLines(out)
            T == ReleaseTagNames
        IN /\ ~out.raised
           /\ \A i \in 1..Len(T) :
                /\ Len(hs[i]) > Len(HeaderPrefix(T[i]))
                /\ TargetOf(T[i]) = NoCommit =>
                    hs[i] = HeaderPrefix(T[i]) \o ExpectedToday(out.day)

\* a tag without a date was rendered on the clock's second day
C5_Witness ==
    /\ Returned(out)
    /\ out.day = 1
    /\ \E i \in 1..Len(ReleaseTagNames) : TargetOf(ReleaseTagNames[i]) = NoCommit

\* the date a header is expected to show
ExpectedDate(tag, day) ==
    IF TargetOf(tag) = NoCommit THEN ExpectedToday(day)
    ELSE strftime_Ymd(AuthorDate(TargetOf(tag)))

\* the messages git returns for the i-th release tag
ExpectedMessages(i) ==
    LET T == ReleaseTagNames
    IN commits_between(Repo, IF i < Len(T) THEN Some(T[i + 1]) ELSE None,
                       T[i], FALSE).value

\* the lines of the document from the i-th section on
RECURSIVE ExpectedLinesFrom(_, _)
ExpectedLinesFrom(i, day) ==
    LET T == ReleaseTagNames
        ms == ExpectedMessages(i)
    IN IF i > Len(T) THEN <<>>
       ELSE (IF i > 1 THEN << <<>> >> ELSE <<>>)
            \o << HeaderPrefix(T[i]) \o ExpectedDate(T[i], day) >>
            \o [k \in 1..Len(ms) |-> <<"-", " ">> \o ms[k]]
            \o ExpectedLinesFrom(i + 1, day)

\* the repository of the example: init, fix B, feature A in a line, v1.0.0
\* on the first commit and v2.0.0, created later, on the third
ExampleRepository ==
    /\ parents[2] = {1}
    /\ parents[3] = {2}
    /\ tags = {[name |-> <<"v", "1", ".", "0", ".", "0">>, target |-> 1,
                created |-> 1],
               [name |-> <<"v", "2", ".", "0", ".", "0">>, target |-> 3,
                created |-> 2]}

ExampleLines ==
    << <<"#", "#", " ", "v", "2", ".", "0", ".", "0", " ", EmDash, " ",
         "2", "0", "2", "4", "-", "1", "2", "-", "0", "3">>,
       <<"-", " ", "f", "e", "a", "t", "u", "r", "e", " ", "A">>,
       <<"-", " ", "f", "i", "x", " ", "B">>,
       <<>>,
       <<"#", "#", " ", "v", "1", ".", "0", ".", "0", " ", EmDash, " ",
         "2", "0", "2", "4", "-", "1", "2", "-", "0", "1">>,
       <<"-", " ", "i", "n", "i", "t">> >>

\* C6: the document of a repository with release tags is, line by line, for
\* each section its header "## <tag> <em dash> <date>" and one "- <message>"
\* line per message in the order git returned them, with one blank line
\* between two sections and one newline at the end; for the example
\* repository these are the six lines of the example.
C6_DocumentFormat ==
    (Returned(out) /\ ReleaseTagNames # <<>>) =>
        /\ DocLines(out) = ExpectedLinesFrom(1, out.day)
        /\ out.text[Len(out.text)] = NL
        /\ out.text[Len(out.text) - 1] # NL
        /\ ExampleRepository => DocLines(out) = ExampleLines

C6_Witness == Returned(out) /\ ExampleRepository /\ DocLines(out) = ExampleLines

NoDateAbsent ==
    \A i \in 1..Len(ReleaseTagNames) : TargetOf(ReleaseTagNames[i]) # NoCommit

\* C7 as claimed: two invocations on the same repository return the same
\* text.
C7_SameResponsesSameText ==
    (Returned(prev_out) /\ Returned(out)) => out.text = prev_out.text

\* C7 as amended: two invocations on the same repository return the same
\* text when they read the same UTC date from the clock or no tag's date is
\* absent; and an invocation leaves the repository as it is.
C7_SameDaySameText ==
    /\ [](( /\ Returned(prev_out)
            /\ Returned(out)
            /\ (out.day = prev_out.day \/ NoDateAbsent) )
          => out.text = prev_out.text)
    /\ [][out' # out => UNCHANGED <<repo_vars, origin_vars, file_vars>>]_vars

\* two invocations on different days, on a repository with release tags that
\* all have a date
C7_Witness ==
    /\ Returned(prev_out)
    /\ Returned(out)
    /\ out.day # prev_out.day
    /\ ReleaseTagNames # <<>>
    /\ NoDateAbsent

----------------------------------------------------------------------------
(* The interactive helpers of main() *)

UpperCase == <<"A", "B", "C", "D", "E", "F", "G", "H", "I", "J", "K", "L", "M",
               "N", "O", "P", "Q", "R", "S", "T", "U", "V", "W", "X", "Y", "Z">>
LowerCase == <<"a", "b", "c", "d", "e", "f", "g", "h", "i", "j", "k", "l", "m",
               "n", "o", "p", "q", "r", "s", "t", "u", "v", "w", "x", "y", "z">>

\* str.lower()
lower(s) ==
    [i \in 1..Len(s) |->
        IF \E k \in 1..26 : UpperCase[k] = s[i]
        THEN LowerCase[CHOOSE k \in 1..26 : UpperCase[k] = s[i]]
        ELSE s[i]]

\* ask(prompt) without a default, on one line of input: the value returned,
\* or again = TRUE when the loop asks once more
ask(input) ==
    LET val == strip(input)
    IN [again |-> val = <<>>, value |-> val]

\* an empty answer taken for a yes whatever the default
ask_yes_no_empty_is_yes(input, default_yes) ==
    LET v == lower(strip(input))
    IN IF v = <<>> \/ v \in {<<"y">>, <<"y", "e", "s">>}
       THEN [again |-> FALSE, value |-> TRUE]
       ELSE IF v \in {<<"n">>, <<"n", "o">>}
       THEN [again |-> FALSE, value |-> FALSE]
       ELSE [again |-> TRUE, value |-> FALSE]

\* ask_yes_no(prompt, default_yes) on one line of input
ask_yes_no(input, default_yes) ==
    LET v == lower(strip(input))
    IN IF v = <<>> THEN [again |-> FALSE, value |-> default_yes]
       ELSE IF v \in {<<"y">>, <<"y", "e", "s">>}
       THEN [again |-> FALSE, value |-> TRUE]
       ELSE IF v \in {<<"n">>, <<"n", "o">>}
       THEN [again |-> FALSE, value |-> FALSE]
       ELSE [again |-> TRUE, value |-> FALSE]

\* a check of the version that lets every text pass
validate_version_any(tag) == TRUE

\* validate_version(tag): FALSE is SystemExit
validate_version(tag) == SEMVER_TAG_RE_match(tag)

\* the text main() hands to the editor
DefaultMessageText ==
    <<"#", " ", "E", "n", "t", "e", "r", " ", "y", "o", "u", "r", " ", "r",
    "e", "l", "e", "a", "s", "e", "/", "c", "o", "m", "m", "i", "t", " ",
    "m", "e", "s", "s", "a", "g", "e", " ", "b", "e", "l", "o", "w", ".", NL,
    "#", " ", "L", "i", "n", "e", "s", " ", "s", "t", "a", "r", "t", "i",
    "n", "g", " ", "w", "i", "t", "h", " ", "#", " ", "a", "r", "e", " ",
    "i", "g", "n", "o", "r", "e", "d", ".", NL, NL>>

\* edit_message_with_nano: the message read back from the file the editor
\* left; an empty message is SystemExit
message_of(file_text) ==
    strip(join(<<NL>>,
        SelectSeq(splitlines(file_text),
                  LAMBDA line : ~IsPrefix(<<"#">>, strip(line)))))

----------------------------------------------------------------------------
(* git commands of main() that change a repository *)

\* the creation time of the next tag made in a repository with tags T
NextStamp(T) ==
    IF T = {} THEN 1
    ELSE 1 + (CHOOSE n \in {t.created : t \in T} :
                \A t \in T : t.created <= n)

\* git tag [-f] -a <tag> -m <message>, at commit `at`
GitTagCreate(T, at, tag, force) ==
    IF ~force /\ \E t \in T : t.name = tag
    THEN [returncode |-> 128, tags |-> T]
    ELSE [returncode |-> 0,
          tags |-> {t \in T : t.name # tag}
                    \cup {[name |-> tag, target |-> at,
                           created |-> NextStamp(T)]}]

\* git push: the branch of origin moves to the local tip
GitPush(tip, up) ==
    IF up \in Reach(parents, tip) \/ up = NoCommit
    THEN [returncode |-> 0, origin_head |-> tip]
    ELSE [returncode |-> 1, origin_head |-> up]

\* git push --tags: a tag origin does not have is created there; a tag origin
\* has with another object is rejected ("already exists") and the command
\* exits non-zero
GitPushTags(local, remote) ==
    LET rejected == {t \in local :
                        \E r \in remote : r.name = t.name /\ r # t}
        created == {t \in local : \A r \in remote : r.name # t.name}
    IN [returncode |-> IF rejected = {} THEN 0 ELSE 1,
        origin_tags |-> remote \cup created]

\* git_push_with_tags(); down1 and down2: the network fails the first, the
\* second command
git_push_with_tags(down1, down2) ==
    LET p1 == IF down1 THEN [returncode |-> 128, origin_head |-> origin_head]
              ELSE GitPush(head, origin_head)
        p2 == IF down2 THEN [returncode |-> 128, origin_tags |-> origin_tags]
              ELSE GitPushTags(tags, origin_tags)
    IN IF p1.returncode # 0
       THEN [raised |-> TRUE, origin_head |-> p1.origin_head,
             origin_tags |-> origin_tags,
             error |-> IF down1 THEN "network" ELSE "rejected"]
       ELSE IF p2.returncode # 0
       THEN [raised |-> TRUE, origin_head |-> p1.origin_head,
             origin_tags |-> p2.origin_tags,
             error |-> IF down2 THEN "network" ELSE "rejected"]
       ELSE [raised |-> FALSE, origin_head |-> p1.origin_head,
             origin_tags |-> p2.origin_tags, error |-> "none"]

----------------------------------------------------------------------------
(* move_staging_to_public *)

\* a directory is a set of items [name, kind, data, inside] with different
\* names: kind is "file" or "dir", data stands for the content, and inside
\* holds the names of what was moved into a directory after it was made
ItemNamed(dir, n) == {x \in dir : x.name = n}

\* the orders in which iterdir() may list a directory
Listings(dir) ==
    {l \in [1..Cardinality(dir) -> dir] :
        \A i, j \in 1..Cardinality(dir) : i # j => l[i] # l[j]}

\* the target is left where it is
remove_target_never(dest, name) == dest

\* if target.exists(): shutil.rmtree(target) or target.unlink()
remove_target(dest, name) == {x \in dest : x.name # name}

\* shutil.move(item, target): into the target when that is a directory, in
\* the place of the target otherwise
shutil_move(dest, item) ==
    IF \E d \in dest : d.name = item.name /\ d.kind = "dir"
    THEN {IF d.name = item.name
          THEN [d EXCEPT !.inside = @ \cup {item.name}]
          ELSE d : d \in dest}
    ELSE {x \in dest : x.name # item.name} \cup {item}

\* the for loop of move_staging_to_public over what is left of the listing
RECURSIVE move_loop(_, _, _)
move_loop(listing, staging_items, dest) ==
    IF listing = <<>> THEN [staging |-> staging_items, dest |-> dest]
    ELSE move_loop(Tail(listing), staging_items \ {Head(listing)},
                   shutil_move(remove_target(dest, Head(listing).name),
                               Head(listing)))

\* dest.mkdir(parents=True, exist_ok=True), then the loop over
\* staging_dir.iterdir(), here the listing
move_staging_to_public(listing, dest) ==
    move_loop(listing, {listing[i] : i \in 1..Len(listing)},
              IF dest = None THEN {} ELSE dest[1])

----------------------------------------------------------------------------
(* main(): one action per step of the release flow *)

\* the release is made from the tip of a linear history
LinearHistory == [c \in Commits |-> IF c = 1 THEN {} ELSE {c - 1}]

\* up to n release tags, created one after the other, each on a commit
ReleaseTagSets(n) ==
    UNION {
        { {[name |-> SemverName(i), target |-> tg[i], created |-> i] :
                i \in 1..k} : tg \in [1..k -> Commits] } :
        k \in 0..n }

OldChangelog == <<"o", "l", "d", NL>>

NewBuild ==
    [name |-> "app.exe", kind |-> "file", data |-> "new build", inside |-> {}]
OldBuild ==
    [name |-> "app.exe", kind |-> "file", data |-> "old build", inside |-> {}]

\* what the operator may type at the version prompt
VersionInputs ==
    {<<>>, <<" ">> \o SemverName(1), SemverName(MaxReleaseTags + 1),
     OtherName(1)}

\* what the operator may type at a yes/no prompt
YesNoInputs ==
    {<<>>, <<"y">>, <<"Y", "e", "s", " ">>, <<"n">>, <<"N", "O">>, <<"?">>}

\* what the editor may leave in the message file
EditedTexts ==
    {DefaultMessageText, <<>>,
     DefaultMessageText \o <<"R", "e", "l", "e", "a", "s", "e", " ", "n", "o", "t", "e", "s", NL>>}

Init ==
    /\ parents = LinearHistory
    /\ subjects = [c \in Commits |-> SubjectPool(c)]
    /\ tags \in ReleaseTagSets(MaxReleaseTags)
    /\ head = MaxCommits
    /\ dirty \in BOOLEAN
    /\ origin_tags \in SUBSET tags
    /\ origin_head \in {MaxCommits - 1, MaxCommits}
    /\ changelog_file \in {None, Some(OldChangelog)}
    /\ staging \in {None, Some({NewBuild})}
    /\ public \in {None, Some({OldBuild})}
    /\ public_pushed = FALSE
    /\ MainNotRun
    /\ initial = Snapshot
    /\ today = 0
    /\ out = NoOutput
    /\ prev_out = NoOutput
    /\ pc = "start"

\* SystemExit
Abort == pc' = "aborted"
\* an exception nobody catches
Crash == pc' = "crashed"

\* ensure_git_repo(), git_repo_root(), git_repo_name()
EnsureRepo ==
    /\ pc = "start"
    /\ \E inside \in BOOLEAN :
        IF inside THEN pc' = "ask_version" ELSE Abort
    /\ UNCHANGED <<repo_vars, origin_vars, file_vars, main_vars, today, out, prev_out>>

\* version = ask(...); validate_version(version)
AskVersion ==
    /\ pc = "ask_version"
    /\ \E input \in VersionInputs :
        LET a == ask(input)
        IN IF a.again THEN UNCHANGED <<pc, version>>
           ELSE /\ version' = Some(a.value)
                /\ IF validate_version(a.value) THEN pc' = "edit_message"
                   ELSE Abort
    /\ UNCHANGED <<repo_vars, origin_vars, file_vars, release_msg, last_answer,
                   last_input,
                   git_fault, push_error, initial, today, out, prev_out>>

\* release_msg = edit_message_with_nano(...)
EditMessage ==
    /\ pc = "edit_message"
    /\ \E nano \in {"ok", "not found", "failed"}, text \in EditedTexts :
        IF nano # "ok" \/ message_of(text) = <<>>
        THEN Abort /\ UNCHANGED release_msg
        ELSE release_msg' = Some(message_of(text)) /\ pc' = "ask_uptodate"
    /\ UNCHANGED <<repo_vars, origin_vars, file_vars, version, last_answer,
                   last_input,
                   git_fault, push_error, initial, today, out, prev_out>>

\* the three questions before anything is done, each ask_yes_no(..., True)
NextQuestion(q) ==
    CASE q = "ask_uptodate" -> "ask_built"
      [] q = "ask_built" -> "ask_binaries"
      [] q = "ask_binaries" -> "commit"

Preflight ==
    /\ pc \in {"ask_uptodate", "ask_built", "ask_binaries"}
    /\ \E input \in YesNoInputs :
        LET a == ask_yes_no(input, TRUE)
        IN /\ last_answer' = Some(input)
           /\ IF a.again THEN UNCHANGED pc
              ELSE IF a.value THEN pc' = NextQuestion(pc)
              ELSE Abort
    /\ UNCHANGED <<repo_vars, origin_vars, file_vars, version, release_msg,
                   last_input, git_fault, push_error, initial, today, out,
                   prev_out>>

\* if git_has_changes(): git_add_all(); git_commit(release_msg)
Commit ==
    /\ pc = "commit"
    /\ \E status_fails \in BOOLEAN, add_fails \in BOOLEAN, commit_fails \in BOOLEAN :
        IF status_fails \/ (dirty /\ add_fails)
        THEN Crash /\ UNCHANGED repo_vars
        ELSE IF dirty /\ ~commit_fails
        THEN /\ parents' = Append(parents, {head})
             /\ subjects' = Append(subjects, release_msg[1])
             /\ head' = Len(parents) + 1
             /\ dirty' = FALSE
             /\ UNCHANGED tags
             /\ pc' = "check_tag"
        ELSE UNCHANGED repo_vars /\ pc' = "check_tag"
    /\ UNCHANGED <<origin_vars, file_vars, main_vars, today, out, prev_out>>

\* if git_tag_exists(version): ... else: git_tag_create(version, release_msg)
CheckTag ==
    /\ pc = "check_tag"
    /\ IF \E t \in tags : t.name = version[1]
       THEN pc' = "ask_overwrite" /\ UNCHANGED tags
       ELSE \E fails \in BOOLEAN :
            LET r == GitTagCreate(tags, head, version[1], FALSE)
            IN IF fails \/ r.returncode # 0 THEN Crash /\ UNCHANGED tags
               ELSE tags' = r.tags /\ pc' = "push"
    /\ UNCHANGED <<parents, subjects, head, dirty, origin_vars, file_vars,
                   main_vars, today, out, prev_out>>

\* if ask_yes_no("Overwrite existing tag locally and on origin?", False):
\*     git_tag_create(version, release_msg, force=True)
\* else: raise SystemExit
AskOverwrite ==
    /\ pc = "ask_overwrite"
    /\ \E input \in YesNoInputs, fails \in BOOLEAN :
        LET a == ask_yes_no(input, FALSE)
            r == GitTagCreate(tags, head, version[1], TRUE)
        IN /\ last_input' = Some(input)
           /\ IF a.again THEN UNCHANGED <<pc, tags>>
              ELSE IF ~a.value THEN Abort /\ UNCHANGED tags
              ELSE IF fails \/ r.returncode # 0 THEN Crash /\ UNCHANGED tags
              ELSE tags' = r.tags /\ pc' = "push"
    /\ UNCHANGED <<parents, subjects, head, dirty, origin_vars, file_vars,
                   version, release_msg, last_answer, git_fault, push_error,
                   initial,
                   today, out, prev_out>>

\* try: git_push_with_tags() except CalledProcessError: raise SystemExit
Push ==
    /\ pc = "push"
    /\ \E down1 \in BOOLEAN, down2 \in BOOLEAN :
        \E r \in {git_push_with_tags(down1, down2)} :
           /\ origin_head' = r.origin_head
           /\ origin_tags' = r.origin_tags
           /\ push_error' = r.error
           /\ IF r.raised THEN Abort ELSE pc' = "changelog"
    /\ UNCHANGED <<repo_vars, file_vars, version, release_msg, last_answer,
                   last_input,
                   git_fault, initial, today, out, prev_out>>

\* changelog = build_changelog(); changelog_path.write_text(changelog)
GenerateChangelog ==
    /\ pc = "changelog"
    /\ \E failAt \in 0..Len(build_changelog(Repo, today, 0).calls) :
        \E r \in {build_changelog(Repo, today, failAt)} :
           /\ git_fault' = failAt
           /\ out' = r
           /\ IF r.raised THEN Crash /\ UNCHANGED changelog_file
              ELSE changelog_file' = Some(r.text) /\ pc' = "find_staging"
    /\ UNCHANGED <<repo_vars, origin_vars, staging, public, public_pushed,
                   version, release_msg, last_answer, last_input, push_error,
                   initial,
                   today, prev_out>>

\* staging_dir = find_staging_dir(...); shutil.copy2(changelog_path, ...)
FindStaging ==
    /\ pc = "find_staging"
    /\ IF staging = None THEN Abort /\ UNCHANGED staging
       ELSE /\ staging' = Some({x \in staging[1] : x.name # "CHANGELOG.txt"}
                    \cup {[name |-> "CHANGELOG.txt", kind |-> "file",
                           data |-> changelog_file[1], inside |-> {}]})
            /\ pc' = "find_release_root"
    /\ UNCHANGED <<repo_vars, origin_vars, changelog_file, public,
                   public_pushed, main_vars, today, out, prev_out>>

\* public_root = find_release_root()
FindReleaseRoot ==
    /\ pc = "find_release_root"
    /\ \E found \in BOOLEAN : IF found THEN pc' = "move" ELSE Abort
    /\ UNCHANGED <<repo_vars, origin_vars, file_vars, main_vars, today, out, prev_out>>

\* dest = move_staging_to_public(...)
MoveStaging ==
    /\ pc = "move"
    /\ \E listing \in Listings(staging[1]) :
        \E r \in {move_staging_to_public(listing, public)} :
            staging' = Some(r.staging) /\ public' = Some(r.dest)
    /\ pc' = "public_commit"
    /\ UNCHANGED <<repo_vars, origin_vars, changelog_file, public_pushed,
                   main_vars, today, out, prev_out>>

\* git add, git commit, git push in the public releases repository
PublicCommit ==
    /\ pc = "public_commit"
    /\ \E add_fails \in BOOLEAN, push_fails \in BOOLEAN :
        IF add_fails \/ push_fails THEN Abort /\ UNCHANGED public_pushed
        ELSE public_pushed' = TRUE /\ pc' = "done"
    /\ UNCHANGED <<repo_vars, origin_vars, changelog_file, staging, public,
                   main_vars, today, out, prev_out>>

Next ==
    \/ EnsureRepo
    \/ AskVersion
    \/ EditMessage
    \/ Preflight
    \/ Commit
    \/ CheckTag
    \/ AskOverwrite
    \/ Push
    \/ GenerateChangelog
    \/ FindStaging
    \/ FindReleaseRoot
    \/ MoveStaging
    \/ PublicCommit

Spec == Init /\ [][Next]_vars

----------------------------------------------------------------------------
(* Properties of the release flow *)

\* the tag of that name in a set of tags (a set of at most one tag)
TagNamed(T, n) == {t \in T : t.name = n}

\* the commits the tags of that name point to
TargetsNamed(T, n) == {t.target : t \in TagNamed(T, n)}

\* the answers ask_yes_no documents as a yes
ExplicitYes == {<<"y">>, <<"y", "e", "s">>}

\* the answer at the overwrite prompt was a yes
OverwriteConfirmed ==
    /\ last_input # None
    /\ lower(strip(last_input[1])) \in ExplicitYes

\* the answer at the overwrite prompt was a no, typed or by default
OverwriteDeclined ==
    /\ last_input # None
    /\ lower(strip(last_input[1])) \in {<<>>, <<"n">>, <<"n", "o">>}

\* C8: when a git call of changelog generation fails (the tag listing, a
\* commit range or a tag date, at any tag index) build_changelog raises, it
\* makes no further git call, the release flow ends with the uncaught error
\* and CHANGELOG.txt is what it was before the run.
C8_FailurePropagates ==
    git_fault # 0 =>
        /\ out.raised
        /\ Len(out.calls) = git_fault
        /\ pc = "crashed"
        /\ changelog_file = initial.changelog_file

\* a tag date lookup of the second section fails, with an older CHANGELOG.txt
\* in place
C8_Witness ==
    /\ git_fault = 5
    /\ pc = "crashed"
    /\ out.raised
    /\ initial.changelog_file = Some(OldChangelog)
    /\ changelog_file = Some(OldChangelog)

\* C9: a tag that existed before the run differs from what it was only
\* after an explicit yes at the overwrite prompt; after a no (an empty answer
\* included) the run is aborted with the tags, origin, CHANGELOG.txt, the
\* staging directory and the public releases repository as they were.
C9_OverwriteOnlyOnYes ==
    /\ (/\ version # None
        /\ TagNamed(initial.tags, version[1]) # {}
        /\ TagNamed(tags, version[1]) # TagNamed(initial.tags, version[1]))
       => OverwriteConfirmed
    /\ (OverwriteDeclined /\ pc # "ask_overwrite") =>
        /\ pc = "aborted"
        /\ tags = initial.tags
        /\ origin_tags = initial.origin_tags
        /\ origin_head = initial.origin_head
        /\ changelog_file = initial.changelog_file
        /\ staging = initial.staging
        /\ public = initial.public
        /\ public_pushed = FALSE

\* the operator just pressed Enter at the overwrite prompt of a tag that is
\* on origin too
C9_Witness ==
    /\ last_input = Some(<<>>)
    /\ pc = "aborted"
    /\ TagNamed(initial.origin_tags, version[1]) # {}
    /\ tags = initial.tags

\* C10: when the tag of the entered version was there locally and on origin
\* and the operator confirmed the overwrite, then once the push step has run
\* with the network up, the tag on origin points to the commit of the
\* re-created local tag and the run has gone on to changelog generation.
C10_OverwriteReachesOrigin ==
    (/\ OverwriteConfirmed
     /\ TagNamed(initial.tags, version[1]) # {}
     /\ TagNamed(initial.origin_tags, version[1]) # {}
     /\ push_error \notin {"unset", "network"})
    => /\ push_error = "none"
       /\ TargetsNamed(origin_tags, version[1]) = TargetsNamed(tags, version[1])

\* the text is v<digits>.<digits>.<digits>
IsVersionText(s) ==
    /\ Len(s) >= 6
    /\ s[1] = "v"
    /\ \E i \in 3..Len(s), j \in 3..Len(s) :
        /\ i + 1 < j
        /\ j < Len(s)
        /\ s[i] = "."
        /\ s[j] = "."
        /\ \A k \in 2..Len(s) : k \notin {i, j} => s[k] \in Digits

\* a commit, a tag, a push, a changelog or a move of files has happened
Touched ==
    \/ Len(parents) > MaxCommits
    \/ tags # initial.tags
    \/ origin_tags # initial.origin_tags
    \/ origin_head # initial.origin_head
    \/ changelog_file # initial.changelog_file
    \/ staging # initial.staging
    \/ public # initial.public
    \/ public_pushed

\* the positions of the script before the first git command that changes
\* something
BeforeCommit ==
    {"start", "ask_version", "edit_message", "ask_uptodate", "ask_built",
     "ask_binaries"}

QuestionsBeforeCommit == {"ask_uptodate", "ask_built", "ask_binaries"}

\* the last answer to a question asked before the commit was a yes, typed or
\* by default
AnsweredYes ==
    /\ last_answer # None
    /\ lower(strip(last_answer[1])) \in {<<>>, <<"y">>, <<"y", "e", "s">>}

AnsweredNo ==
    /\ last_answer # None
    /\ lower(strip(last_answer[1])) \in {<<"n">>, <<"n", "o">>}

\* C11: a version that is not v<major>.<minor>.<patch>, an empty message or a
\* no to one of the three questions aborts the run with no commit, tag, push,
\* changelog or file move made; the script gets past a question only on a
\* yes; and whenever one of those has been made the version was valid, the
\* message was not empty and the questions were answered yes.
C11_ChecksBeforeEffects ==
    /\ []((version # None /\ ~IsVersionText(version[1]))
            => (pc = "aborted" /\ ~Touched))
    /\ []((release_msg = None \/ release_msg = Some(<<>>))
            => (pc \in {"start", "ask_version", "edit_message", "aborted"}
                /\ ~Touched))
    /\ [](AnsweredNo => (pc = "aborted" /\ ~Touched))
    /\ [](pc \in BeforeCommit => ~Touched)
    /\ [](Touched =>
            /\ version # None
            /\ IsVersionText(version[1])
            /\ release_msg # None
            /\ release_msg[1] # <<>>
            /\ AnsweredYes)
    /\ [][(pc \in QuestionsBeforeCommit /\ pc' \notin {pc, "aborted"})
            => AnsweredYes']_vars

\* the operator said no to a question, with changes waiting in the working
\* tree
C11_Witness ==
    /\ AnsweredNo
    /\ pc = "aborted"
    /\ dirty
    /\ release_msg # None
    /\ ~Touched

----------------------------------------------------------------------------
(* move_staging_to_public called on directories of every shape *)

ItemName(i) ==
    CASE i = 1 -> "app.exe"
      [] i = 2 -> "docs"
      [] i = 3 -> "CHANGELOG.txt"
      [] OTHER -> "notes"

\* the directories with a file, a directory or nothing under each name
Directories(content) ==
    { {[name |-> ItemName(i), kind |-> shape[i], data |-> content,
        inside |-> {}] : i \in {k \in 1..MaxItems : shape[k] # "absent"}} :
        shape \in [1..MaxItems -> {"absent", "file", "dir"}] }

InitMove ==
    /\ parents = LinearHistory
    /\ subjects = [c \in Commits |-> SubjectPool(c)]
    /\ tags = {}
    /\ head = MaxCommits
    /\ dirty = FALSE
    /\ origin_tags = {}
    /\ origin_head = NoCommit
    /\ changelog_file = None
    /\ staging \in {Some(d) : d \in Directories("staged")}
    /\ public \in {None} \cup {Some(d) : d \in Directories("published")}
    /\ public_pushed = FALSE
    /\ MainNotRun
    /\ initial = Snapshot
    /\ today = 0
    /\ out = NoOutput
    /\ prev_out = NoOutput
    /\ pc = "call_move"

CallMove ==
    /\ pc = "call_move"
    /\ \E listing \in Listings(staging[1]) :
        \E r \in {move_staging_to_public(listing, public)} :
            staging' = Some(r.staging) /\ public' = Some(r.dest)
    /\ pc' = "moved"
    /\ UNCHANGED <<repo_vars, origin_vars, changelog_file, public_pushed,
                   main_vars, today, out, prev_out>>

NextMove == CallMove

SpecMove == InitMove /\ [][NextMove]_vars

\* what was in the staging directory and at the destination before the call
StagedBefore == initial.staging[1]
PublishedBefore == IF initial.public = None THEN {} ELSE initial.public[1]

\* C12: after move_staging_to_public the destination exists; every item of
\* the staging directory is there under its name with its staging content,
\* in the place of whatever had that name; the staging directory is empty;
\* and the items of the destination under other names are what they were.
C12_MoveReplaces ==
    pc = "moved" =>
        /\ public # None
        /\ \A x \in StagedBefore : x \in public[1]
        /\ \A x, y \in public[1] : x.name = y.name => x = y
        /\ staging = Some({})
        /\ \A y \in PublishedBefore :
            (\A x \in StagedBefore : x.name # y.name) => y \in public[1]
        /\ public[1] \subseteq StagedBefore \cup PublishedBefore

\* a staged file takes the place of a directory of its name, next to an item
\* of the destination that staging has nothing for
C12_Witness ==
    /\ pc = "moved"
    /\ \E x \in StagedBefore, y \in PublishedBefore :
        x.name = y.name /\ x.kind = "file" /\ y.kind = "dir"
    /\ \E y \in PublishedBefore : \A x \in StagedBefore : x.name # y.name
    /\ staging = Some({})

====
